---- MODULE Spec2Model ----
(***************************************************************************)
(* A model of binread (src/src/binread): the field descriptors of          *)
(* format.py and types.py, their construction (which writes the            *)
(* _default_byteorder of the descriptors handed to it), their extract      *)
(* methods as operators over a heap of descriptors, and the ByteReader of  *)
(* reader.py.                                                              *)
(*                                                                         *)
(* A byte has ByteRadix = 2^ByteBits values.  Python's integers are        *)
(* unbounded and TLC's are 32 bits wide, so the model keeps ByteBits small *)
(* enough for the value of an 8-byte integer to be representable; every    *)
(* operator is written for an arbitrary radix.                             *)
(*                                                                         *)
(* Python values are tagged tuples: <<"int", n>>, <<"list", seq>> and      *)
(* <<"dict", seq of <<name, value>> in insertion order>>.  None is the     *)
(* string "None" for a byte order and the tuple <<"None">> for a length,   *)
(* a byte budget or a terminator.                                          *)
(***************************************************************************)
EXTENDS Integers, Sequences, FiniteSets, TLC

VARIABLES native, heap, call, stream, rd

vars == <<native, heap, call, stream, rd>>

---------------------------------------------------------------------------
(* Bounds of the model. *)

\* bits of a byte (8 in the program)
ByteBits == 2
\* the longest input buffer handed to Array.extract
MaxLen == 5
\* the largest literal element count of an Array
MaxCount == 2
\* the largest literal byte budget of an Array
MaxBudget == 3
\* the most fields of a Format
MaxFields == 2
\* the longest input buffer handed to Format.read
MaxData == 4
\* the most descriptors constructed
MaxObjs == 3
\* the longest buffer a ByteReader is constructed over
MaxStream == 3
\* the largest size a ByteReader is asked to read
MaxRead == 4
\* how far from 0 and from the ends of its range an integer is probed
EdgeSpan == 3

RECURSIVE Pow(_, _)
Pow(b, e) == IF e = 0 THEN 1 ELSE b * Pow(b, e - 1)

ByteRadix == Pow(2, ByteBits)

\* the byte values input buffers are drawn from
InputBytes == {0, 1, 2}

RECURSIVE SeqsUpTo(_, _)
SeqsUpTo(S, n) ==
    IF n = 0 THEN {<<>>}
    ELSE LET shorter == SeqsUpTo(S, n - 1)
         IN  shorter \cup {Append(s, b) : s \in {t \in shorter : Len(t) = n - 1}, b \in S}

Drop(s, n) == SubSeq(s, n + 1, Len(s))

Take(s, n) == SubSeq(s, 1, n)

StartsWith(s, p) == Len(p) <= Len(s) /\ Take(s, Len(p)) = p

---------------------------------------------------------------------------
(* Python values and the outcome of a call. *)

IntV(n) == <<"int", n>>
ListV(s) == <<"list", s>>
DictV(s) == <<"dict", s>>
NoneV == <<"None">>

IsInt(v) == v[1] = "int"

Ok(value, size) == [err |-> "ok", value |-> value, size |-> size]
Raise(e) == [err |-> e, value |-> NoneV, size |-> 0]

\* fields[name] of a dict of decoded fields: the value, or KeyError
HasKey(fields, name) == \E i \in 1 .. Len(fields) : fields[i][1] = name
GetItem(fields, name) ==
    fields[CHOOSE i \in 1 .. Len(fields) : fields[i][1] = name][2]

---------------------------------------------------------------------------
(* format.py: FieldType *)

ByteOrders == {"little", "big"}

\* FieldType._inheriting_byteorder
_inheriting_byteorder(d) ==
    IF d._byteorder # "None" THEN d._byteorder ELSE d._default_byteorder

\* FieldType.byteorder; sys.byteorder is the variable native
byteorder(d) ==
    LET bo == IF d._byteorder # "None" THEN d._byteorder ELSE d._default_byteorder
    IN  IF bo = "little" \/ bo = "big" THEN bo ELSE native

---------------------------------------------------------------------------
(* format.py: Integer *)

RECURSIVE FromLittle(_)
FromLittle(bs) ==
    IF bs = <<>> THEN 0 ELSE bs[1] + ByteRadix * FromLittle(Tail(bs))

RECURSIVE FromBig(_, _)
FromBig(bs, acc) ==
    IF bs = <<>> THEN acc ELSE FromBig(Tail(bs), acc * ByteRadix + bs[1])

from_bytesMutLittle(bs, order, signed) ==
    LET u == FromLittle(bs)
        m == Pow(ByteRadix, Len(bs))
    IN  IF signed /\ 2 * u >= m THEN u - m ELSE u

\* int.from_bytes(bs, order, signed=signed)
from_bytes(bs, order, signed) ==
    LET u == IF order = "little" THEN FromLittle(bs) ELSE FromBig(bs, 0)
        m == Pow(ByteRadix, Len(bs))
    IN  IF signed /\ 2 * u >= m THEN u - m ELSE u

\* Integer.extract
IntegerExtract(d, data) ==
    IF d._size > Len(data) THEN Raise("NotEnoughBytes")
    ELSE Ok(IntV(from_bytes(Take(data, d._size), byteorder(d), d.signed)), d._size)

---------------------------------------------------------------------------
(* Descriptors.  The heap is the sequence of the descriptors constructed   *)
(* so far; a descriptor's identity is its index.                           *)

\* types.py: the Integer subclasses, as (size, signed)
IntClasses == {"U8", "I8", "U16", "I16", "U32", "I32", "U64", "I64"}

ClassSize(c) ==
    CASE c \in {"U8", "I8"} -> 1
      [] c \in {"U16", "I16"} -> 2
      [] c \in {"U32", "I32"} -> 4
      [] c \in {"U64", "I64"} -> 8

ClassSigned(c) == c \in {"I8", "I16", "I32", "I64"}

\* FieldType.__init__: the fields every descriptor has
FieldTypeInit(kind, bo) ==
    [kind |-> kind, _byteorder |-> bo, _default_byteorder |-> "native",
     _size |-> 0, signed |-> FALSE, element |-> 0,
     _length |-> NoneV, _length_bytes |-> NoneV, _terminator |-> NoneV,
     _fields |-> <<>>]

\* Integer.__init__ through a subclass of types.py: cls(byteorder=bo)
IntegerInit(c, bo) ==
    [FieldTypeInit("Integer", bo) EXCEPT !._size = ClassSize(c), !.signed = ClassSigned(c)]

\* field._default_byteorder = byteorder, on the instance handed in
set_default_byteorder(h, id, bo) == [h EXCEPT ![id]._default_byteorder = bo]

\* FieldType._to_instance, for a field given as an instance <<"inst", id>> or as
\* an Integer subclass <<"cls", c>> (then field() is constructed); the pair of the
\* heap and the instance
_to_instance(h, f) ==
    IF f[1] = "inst" THEN <<h, f[2]>>
    ELSE <<Append(h, IntegerInit(f[2], "None")), Len(h) + 1>>

\* Array.__init__; the new Array is the last descriptor of the heap returned
ArrayInit(h, element, length, length_bytes, terminator, bo) ==
    LET self == FieldTypeInit("Array", bo)
        order == IF self._byteorder # "None" THEN self._byteorder
                 ELSE self._default_byteorder
        made == _to_instance(h, element)
        h1 == set_default_byteorder(made[1], made[2], order)
    IN  Append(h1, [self EXCEPT !.element = made[2], !._length = length,
                                !._length_bytes = length_bytes,
                                !._terminator = terminator])

\* the loop of Format.__init__ over fields.items()
RECURSIVE FormatInitLoop(_, _, _, _)
FormatInitLoop(h, fields, order, acc) ==
    IF fields = <<>> THEN <<h, acc>>
    ELSE LET made == _to_instance(h, fields[1][2])
             h1 == set_default_byteorder(made[1], made[2], order)
         IN  FormatInitLoop(h1, Tail(fields), order,
                            Append(acc, <<fields[1][1], made[2]>>))

\* Format.__init__; the new Format is the last descriptor of the heap returned
FormatInit(h, fields, bo) ==
    LET self == FieldTypeInit("Format", bo)
        done == FormatInitLoop(h, fields, _inheriting_byteorder(self), <<>>)
    IN  Append(done[1], [self EXCEPT !._fields = done[2]])

---------------------------------------------------------------------------
(* The extract methods.  An outcome is Ok(value, bytes read) or Raise(e).  *)
(* A loop whose element reads no byte and whose condition stays true never *)
(* ends: its outcome is Raise("diverges").                                 *)

RECURSIVE read_field(_, _, _, _)
RECURSIVE extract_with_length(_, _, _, _, _, _)
RECURSIVE extract_with_terminator(_, _, _, _, _, _)
RECURSIVE extract_with_length_bytes(_, _, _, _, _, _)
RECURSIVE ReadLoop(_, _, _, _, _)

\* Array.length / Array.length_bytes: the specifier resolved against fields
Resolve(spec, fields) ==
    CASE spec[1] = "int" -> Ok(spec, 0)
      [] spec[1] = "str" -> IF HasKey(fields, spec[2]) THEN Ok(GetItem(fields, spec[2]), 0)
                            ELSE Raise("KeyError")
      [] OTHER -> Raise("invalid length specifier")

countedMutElements(acc, total) == Ok(ListV(acc), Len(acc))

\* Array.extract_with_length, after its loop: return result, total
counted(acc, total) == Ok(ListV(acc), total)

\* Array.extract_with_length: i elements are still to be read
extract_with_length(h, e, data, i, acc, total) ==
    IF i <= 0 THEN counted(acc, total)
    ELSE LET r == read_field(h, e, data, <<>>)
         IN  IF r.err # "ok" THEN r
             ELSE extract_with_length(h, e, Drop(data, r.size), i - 1,
                                      Append(acc, r.value), total + r.size)

terminatedMutNoSentinelBytes(acc, total, terminator) == Ok(ListV(acc), total)

\* Array.extract_with_terminator, after its loop: total += len(terminator)
terminated(acc, total, terminator) == Ok(ListV(acc), total + Len(terminator))

\* Array.extract_with_terminator
extract_with_terminator(h, e, data, terminator, acc, total) ==
    IF StartsWith(data, terminator) THEN terminated(acc, total, terminator)
    ELSE LET r == read_field(h, e, data, <<>>)
         IN  IF r.err # "ok" THEN r
             ELSE IF r.size = 0 THEN Raise("diverges")
             ELSE extract_with_terminator(h, e, Drop(data, r.size), terminator,
                                          Append(acc, r.value), total + r.size)

\* Array.extract_with_length_bytes
extract_with_length_bytes(h, e, data, length_bytes, acc, total) ==
    IF ~(total < length_bytes) THEN Ok(ListV(acc), total)
    ELSE LET r == read_field(h, e, data, <<>>)
         IN  IF r.err # "ok" THEN r
             ELSE IF r.size = 0 THEN Raise("diverges")
             ELSE extract_with_length_bytes(h, e, Drop(data, r.size), length_bytes,
                                            Append(acc, r.value), total + r.size)

\* Array.extract
ArrayExtract(h, id, data, fields) ==
    LET d == h[id]
    IN  IF d._length # NoneV
        THEN LET n == Resolve(d._length, fields)
             IN  IF n.err # "ok" THEN n
                 ELSE IF ~IsInt(n.value) THEN Raise("TypeError")
                 ELSE extract_with_length(h, d.element, data, n.value[2], <<>>, 0)
        ELSE IF d._terminator # NoneV
        THEN extract_with_terminator(h, d.element, data, d._terminator[2], <<>>, 0)
        ELSE IF d._length_bytes # NoneV /\ d._length_bytes # IntV(0)
        THEN LET n == Resolve(d._length_bytes, fields)
             IN  IF n.err # "ok" THEN n
                 ELSE IF ~IsInt(n.value) THEN Raise("TypeError")
                 ELSE extract_with_length_bytes(h, d.element, data, n.value[2], <<>>, 0)
        ELSE Raise("array must either have a length, length_bytes or a terminator")

read_nextMutEmptyContext(h, field, data, result) == read_field(h, field[2], data, <<>>)

\* Format.read, in its loop: field.read_field(data, result)
read_next(h, field, data, result) == read_field(h, field[2], data, result)

\* the loop of Format.read over self._fields.items()
ReadLoop(h, fields, data, result, total) ==
    IF fields = <<>> THEN [err |-> "ok", result |-> result, total |-> total, data |-> data]
    ELSE LET r == read_next(h, fields[1], data, result)
         IN  IF r.err # "ok"
             THEN [err |-> r.err, result |-> result, total |-> total, data |-> data]
             ELSE ReadLoop(h, Tail(fields), Drop(data, r.size),
                           Append(result, <<fields[1][1], r.value>>), total + r.size)

FormatReadMutNoLeftoverCheck(h, id, data, allow_leftover, return_bytes) ==
    LET done == ReadLoop(h, h[id]._fields, data, <<>>, 0)
    IN  IF done.err # "ok" THEN [err |-> done.err, ret |-> <<>>]
        ELSE IF return_bytes
        THEN [err |-> "ok", ret |-> <<DictV(done.result), done.total>>]
        ELSE [err |-> "ok", ret |-> <<DictV(done.result)>>]

\* Format.read; ret is what the call returns: <<result, total>> with
\* return_bytes, <<result>> without
FormatRead(h, id, data, allow_leftover, return_bytes) ==
    LET done == ReadLoop(h, h[id]._fields, data, <<>>, 0)
    IN  IF done.err # "ok" THEN [err |-> done.err, ret |-> <<>>]
        ELSE IF Len(done.data) # 0 /\ ~allow_leftover
        THEN [err |-> "left over bytes", ret |-> <<>>]
        ELSE IF return_bytes
        THEN [err |-> "ok", ret |-> <<DictV(done.result), done.total>>]
        ELSE [err |-> "ok", ret |-> <<DictV(done.result)>>]

\* Format.extract
FormatExtract(h, id, data, fields) ==
    LET r == FormatRead(h, id, data, TRUE, TRUE)
    IN  IF r.err # "ok" THEN Raise(r.err) ELSE Ok(r.ret[1], r.ret[2])

\* FieldType.read_field, for a descriptor without a transform (to is None)
read_field(h, id, data, fields) ==
    CASE h[id].kind = "Integer" -> IntegerExtract(h[id], data)
      [] h[id].kind = "Array" -> ArrayExtract(h, id, data, fields)
      [] h[id].kind = "Format" -> FormatExtract(h, id, data, fields)

---------------------------------------------------------------------------
(* The calls.  call is the call in hand: "pending" with its arguments      *)
(* before it runs, and with its outcome (out) after.                       *)

NoCall == [op |-> "none", id |-> 0, data |-> <<>>, allow_leftover |-> FALSE,
           return_bytes |-> FALSE, out |-> Raise("none")]

Pending(id, data) == [NoCall EXCEPT !.op = "pending", !.id = id, !.data = data]

\* the byte order arguments a descriptor is constructed with
OrderArgs == {"None", "little", "big", "native"}

NoStream == [buf |-> <<>>, pos |-> 0]

NoRead == [op |-> "none", size |-> 0, err |-> "ok", ret |-> <<>>]

\* descriptor.read_field(data, {}) on the pending call's descriptor
ReadField ==
    /\ call.op = "pending"
    /\ call' = [call EXCEPT !.op = "read_field",
                            !.out = read_field(heap, call.id, call.data, <<>>)]
    /\ UNCHANGED <<native, heap, stream, rd>>

\* format.read(data, allow_leftover, return_bytes) on the pending call's Format
Read(allow_leftover, return_bytes) ==
    /\ call.op = "pending"
    /\ heap[call.id].kind = "Format"
    /\ call' = [call EXCEPT !.op = "read",
                            !.allow_leftover = allow_leftover,
                            !.return_bytes = return_bytes,
                            !.out = FormatRead(heap, call.id, call.data,
                                               allow_leftover, return_bytes)]
    /\ UNCHANGED <<native, heap, stream, rd>>

---------------------------------------------------------------------------
(* Format decoding: a Format of up to MaxFields fields, each a U8, a U16,  *)
(* an Array of U8 whose length is the field named "length", or a nested    *)
(* Format, applied to every buffer up to MaxData bytes.                    *)

FieldNames == <<"length", "payload", "tail", "more", "last">>

FieldKinds == {"U8", "U16", "Counted", "Inner"}

\* the dict handed to Format.__init__, its values constructed in order:
\* "Counted" is Array(U8, length="length"), "Inner" is Format({"x": U16})
RECURSIVE BuildFields(_, _, _, _)
BuildFields(h, kinds, i, acc) ==
    IF i > Len(kinds) THEN <<h, acc>>
    ELSE CASE kinds[i] = "Counted" ->
                LET h1 == ArrayInit(h, <<"cls", "U8">>, <<"str", "length">>, NoneV, NoneV,
                                    "None")
                IN  BuildFields(h1, kinds, i + 1,
                                Append(acc, <<FieldNames[i], <<"inst", Len(h1)>>>>))
           [] kinds[i] = "Inner" ->
                LET h1 == FormatInit(h, <<<<"x", <<"cls", "U16">>>>>>, "None")
                IN  BuildFields(h1, kinds, i + 1,
                                Append(acc, <<FieldNames[i], <<"inst", Len(h1)>>>>))
           [] OTHER ->
                BuildFields(h, kinds, i + 1,
                            Append(acc, <<FieldNames[i], <<"cls", kinds[i]>>>>))

\* Format({...}, byteorder=bo): the Format is the last descriptor of the heap
FormatHeap(kinds, bo) ==
    LET built == BuildFields(<<>>, kinds, 1, <<>>)
    IN  FormatInit(built[1], built[2], bo)

Init ==
    /\ native \in ByteOrders
    /\ \E kinds \in SeqsUpTo(FieldKinds, MaxFields), bo \in {"None", "little", "big"} :
          heap = FormatHeap(kinds, bo)
    /\ \E data \in SeqsUpTo(InputBytes, MaxData) : call = Pending(Len(heap), data)
    /\ stream = NoStream
    /\ rd = NoRead

Next == \E allow_leftover \in BOOLEAN, return_bytes \in BOOLEAN :
            Read(allow_leftover, return_bytes)

Spec == Init /\ [][Next]_vars

\* the Format of the call in hand is {length: U8, payload: Array(U8, length="length")}
IsLengthPayload(h, id) ==
    /\ h[id].kind = "Format"
    /\ Len(h[id]._fields) = 2
    /\ h[id]._fields[1][1] = "length"
    /\ h[h[id]._fields[1][2]].kind = "Integer"
    /\ h[h[id]._fields[1][2]]._size = 1
    /\ ~h[h[id]._fields[1][2]].signed
    /\ h[id]._fields[2][1] = "payload"
    /\ h[h[id]._fields[2][2]].kind = "Array"
    /\ h[h[id]._fields[2][2]]._length = <<"str", "length">>
    /\ h[h[h[id]._fields[2][2]].element].kind = "Integer"
    /\ h[h[h[id]._fields[2][2]].element]._size = 1
    /\ ~h[h[h[id]._fields[2][2]].element].signed

\* C1: Format.read decodes its fields in declaration order and each field sees
\* the fields decoded before it: on every input, the Format {length: U8,
\* payload: Array(U8, length="length")} reads 1 + n bytes, n being the value of
\* the first byte, and returns {length: n, payload: the n bytes after it} in that
\* order; it raises NotEnoughBytes when fewer than 1 + n bytes are given, and
\* "left over bytes" when more are given and leftover is not allowed.
C1_DependentLength ==
    (call.op = "read" /\ IsLengthPayload(heap, call.id))
    => IF Len(call.data) = 0 \/ Len(call.data) < 1 + call.data[1]
       THEN call.out.err = "NotEnoughBytes"
       ELSE LET n == call.data[1]
            IN  IF Len(call.data) > 1 + n /\ ~call.allow_leftover
                THEN call.out.err = "left over bytes"
                ELSE /\ call.out.err = "ok"
                     /\ call.out.ret[1] =
                           DictV(<<<<"length", IntV(n)>>,
                                   <<"payload",
                                     ListV([i \in 1 .. n |-> IntV(call.data[1 + i])])>>>>)
                     /\ call.return_bytes => call.out.ret[2] = 1 + n

\* {length, payload} has read 3 bytes, 2 of them the payload, and returned them
C1_Witness ==
    /\ call.op = "read" /\ IsLengthPayload(heap, call.id)
    /\ call.return_bytes
    /\ call.data = <<2, 1, 2>>
    /\ call.out.err = "ok"
    /\ call.out.ret[2] = 3
    /\ call.out.ret[1][2][2] = <<"payload", ListV(<<IntV(1), IntV(2)>>)>>

\* the fields of the call's Format decoded one after the other from its data
FieldsRead == ReadLoop(heap, heap[call.id]._fields, call.data, <<>>, 0)

\* the bytes the fields of a Format of Integers read: the sum of their sizes
RECURSIVE SizeSum(_, _)
SizeSum(h, fields) ==
    IF fields = <<>> THEN 0 ELSE h[fields[1][2]]._size + SizeSum(h, Tail(fields))

\* C2: when every field of a Format decodes, a top-level read with
\* allow_leftover false raises "left over bytes" if at least one byte remains
\* after the last field and succeeds if none remains; with allow_leftover true
\* it succeeds, and with return_bytes it reports the bytes its fields read, the
\* length of the input minus that of the leftover (for a Format of Integers,
\* the sum of their sizes).
C2_Leftover ==
    (call.op = "read" /\ FieldsRead.err = "ok")
    => /\ (~call.allow_leftover /\ FieldsRead.total < Len(call.data))
            => call.out.err = "left over bytes"
       /\ (call.allow_leftover \/ FieldsRead.total = Len(call.data))
            => /\ call.out.err = "ok"
               /\ Len(call.out.ret) = (IF call.return_bytes THEN 2 ELSE 1)
               /\ call.out.ret[1] = DictV(FieldsRead.result)
               /\ call.return_bytes =>
                     /\ call.out.ret[2] = Len(call.data) - Len(FieldsRead.data)
                     /\ call.out.ret[2] <= Len(call.data)
                     /\ (\A i \in 1 .. Len(heap[call.id]._fields) :
                            heap[heap[call.id]._fields[i][2]].kind = "Integer")
                        => call.out.ret[2] = SizeSum(heap, heap[call.id]._fields)

\* a read that does not allow leftover has raised "left over bytes" on an input
\* one byte longer than its two fields
C2_Witness ==
    /\ call.op = "read" /\ ~call.allow_leftover
    /\ Len(heap[call.id]._fields) = 2
    /\ FieldsRead.err = "ok" /\ FieldsRead.total = Len(call.data) - 1
    /\ call.out.err = "left over bytes"

---------------------------------------------------------------------------
(* Integer decoding of packed values (tests/binread/test_types.py).        *)

Reverse(s) == [i \in 1 .. Len(s) |-> s[Len(s) + 1 - i]]

\* the values an Integer of this size and signedness represents
Lowest(size, signed) == IF signed THEN -(Pow(ByteRadix, size) \div 2) ELSE 0
Highest(size, signed) ==
    IF signed THEN Pow(ByteRadix, size) \div 2 - 1 ELSE Pow(ByteRadix, size) - 1

\* the values probed: the ends of the range, those around 0, and one non-zero
\* digit at each byte position
Probes(size, signed) ==
    LET lo == Lowest(size, signed)
        hi == Highest(size, signed)
        digits == {d * Pow(ByteRadix, i) : d \in 1 .. ByteRadix - 1, i \in 0 .. size - 1}
        cand == (lo .. lo + EdgeSpan) \cup (hi - EdgeSpan .. hi)
                \cup (-EdgeSpan .. EdgeSpan) \cup digits \cup {-x : x \in digits}
                \cup {x - 1 : x \in digits}
    IN  {v \in cand : lo <= v /\ v <= hi}

\* struct.pack of the tests: the canonical encoding of v in size bytes, two's
\* complement when signed
Pack(v, size, order, signed) ==
    LET u == IF v < 0 THEN v + Pow(ByteRadix, size) ELSE v
        little == [i \in 1 .. size |-> (u \div Pow(ByteRadix, i - 1)) % ByteRadix]
    IN  IF order = "little" THEN little ELSE Reverse(little)

\* the buffers handed to an Integer: a packed value, one byte short of it, and
\* one followed by a further byte
IntegerInputs(c) ==
    UNION {LET p == Pack(v, ClassSize(c), o, ClassSigned(c))
           IN  {p, Take(p, ClassSize(c) - 1), Append(p, 1)}
           : v \in Probes(ClassSize(c), ClassSigned(c)), o \in ByteOrders}

InitInteger ==
    /\ native \in ByteOrders
    /\ \E c \in IntClasses, bo \in OrderArgs :
          /\ heap = <<IntegerInit(c, bo)>>
          /\ \E data \in IntegerInputs(c) : call = Pending(1, data)
    /\ stream = NoStream
    /\ rd = NoRead

NextInteger == ReadField

SpecInteger == InitInteger /\ [][NextInteger]_vars

\* C3: an Integer with an explicit byte order decodes the canonical encoding of
\* every representable value v of its width and signedness, in that byte order,
\* to exactly v, and reports its width as the bytes read.
C3_IntegerRoundTrip ==
    (call.op = "read_field" /\ heap[call.id].kind = "Integer"
        /\ heap[call.id]._byteorder \in ByteOrders)
    => LET d == heap[call.id]
       IN  \A v \in Probes(d._size, d.signed) :
              call.data = Pack(v, d._size, d._byteorder, d.signed)
              => call.out = Ok(IntV(v), d._size)

\* an 8-byte signed big-endian Integer on a little-endian host has decoded a
\* negative value whose encoding reads differently in the other byte order
C3_Witness ==
    /\ call.op = "read_field"
    /\ heap[call.id]._size = 8 /\ heap[call.id].signed
    /\ heap[call.id]._byteorder = "big" /\ native = "little"
    /\ call.data # Reverse(call.data)
    /\ call.out.err = "ok" /\ call.out.value[2] < -1
    /\ call.data = Pack(call.out.value[2], 8, "big", TRUE)

---------------------------------------------------------------------------
(* Array decoding (types.py; tests/binread/test_types.py, test_array and   *)
(* test_array_variable_terminated): an Array of an Integer class with each *)
(* way of giving its extent, applied to every buffer up to MaxLen bytes.   *)

\* the terminators an Array is constructed with
Terminators == {<<0>>, <<1>>, <<0, 0>>, <<1, 0>>}

\* the (length, length_bytes, terminator) arguments of Array.__init__: one of the
\* three, none of them, and two of them at once
ArrayArgs ==
    {<<IntV(n), NoneV, NoneV>> : n \in 0 .. MaxCount}
    \cup {<<NoneV, IntV(b), NoneV>> : b \in 0 .. MaxBudget}
    \cup {<<NoneV, NoneV, <<"bytes", t>>>> : t \in Terminators}
    \cup {<<NoneV, NoneV, NoneV>>,
          <<IntV(1), NoneV, <<"bytes", <<0, 0>>>>>>,
          <<NoneV, IntV(2), <<"bytes", <<0>>>>>>}

\* Array(element=c, length=.., length_bytes=.., terminator=.., byteorder=..):
\* the element is descriptor 1 and the Array descriptor 2
ArrayHeaps ==
    {ArrayInit(<<>>, <<"cls", c>>, a[1], a[2], a[3], bo) :
        c \in {"U8", "U16"}, a \in ArrayArgs, bo \in {"None", "little", "big"}}

\* Array(Array(U8, length=n), terminator=t): the elements are themselves Arrays,
\* of n bytes each; U8 is descriptor 1, the inner Array 2 and the outer Array 3
NestedArrayHeaps ==
    {ArrayInit(ArrayInit(<<>>, <<"cls", "U8">>, IntV(n), NoneV, NoneV, "None"),
               <<"inst", 2>>, NoneV, NoneV, <<"bytes", t>>, "None") :
        n \in 0 .. 1, t \in Terminators}

\* the call is made on the Array constructed last
InitArray ==
    /\ native \in ByteOrders
    /\ heap \in ArrayHeaps \cup NestedArrayHeaps
    /\ \E data \in SeqsUpTo(InputBytes, MaxLen) : call = Pending(Len(heap), data)
    /\ stream = NoStream
    /\ rd = NoRead

NextArray == ReadField

SpecArray == InitArray /\ [][NextArray]_vars

\* the i-th element-sized chunk of data, and the value the element decodes it to
Chunk(data, w, i) == SubSeq(data, (i - 1) * w + 1, i * w)
ChunkValue(e, data, i) == IntegerExtract(e, Chunk(data, e._size, i)).value

\* the call in hand is Array.extract, done, on an Array of Integer elements
ArrayCallDone ==
    /\ call.op = "read_field"
    /\ heap[call.id].kind = "Array"
    /\ heap[heap[call.id].element].kind = "Integer"

\* C5: an Array with a literal count n over an Integer element of w bytes, given
\* at least n * w bytes, returns the n elements in input order and n * w as the
\* bytes read, whatever follows them; given fewer it raises NotEnoughBytes.
C5_CountedArray ==
    (ArrayCallDone /\ heap[call.id]._length # NoneV)
    => LET e == heap[heap[call.id].element]
           n == heap[call.id]._length[2]
       IN  IF Len(call.data) >= n * e._size
           THEN call.out = Ok(ListV([i \in 1 .. n |-> ChunkValue(e, call.data, i)]),
                              n * e._size)
           ELSE call.out.err = "NotEnoughBytes"

\* a count of 2 over U16 has returned two different elements and 4 bytes read
\* from a buffer of 5 bytes
C5_Witness ==
    /\ ArrayCallDone
    /\ heap[call.id]._length = IntV(2) /\ heap[call.id]._terminator = NoneV
    /\ heap[heap[call.id].element]._size = 2
    /\ Len(call.data) = 5
    /\ call.out.err = "ok" /\ call.out.size = 4
    /\ Len(call.out.value[2]) = 2
    /\ call.out.value[2][1] # call.out.value[2][2]

\* the first k for which the (k+1)-th chunk of data is the sentinel element
IsFirstSentinel(data, w, t, k) ==
    /\ (k + 1) * w <= Len(data)
    /\ Chunk(data, w, k + 1) = t
    /\ \A j \in 1 .. k : Chunk(data, w, j) # t

\* C4: an Array with a sentinel that is one element's encoding (terminator of the
\* element's width), on every input one of whose elements is the sentinel, returns
\* exactly the elements before the first sentinel element, and as the bytes read
\* the bytes of those elements plus the bytes of the sentinel: the sentinel is
\* consumed, it is not in the result, and what follows it is not read.
C4_SentinelArray ==
    (ArrayCallDone /\ heap[call.id]._length = NoneV
        /\ heap[call.id]._terminator # NoneV
        /\ Len(heap[call.id]._terminator[2]) = heap[heap[call.id].element]._size)
    => LET e == heap[heap[call.id].element]
           t == heap[call.id]._terminator[2]
       IN  \A k \in 0 .. Len(call.data) :
              IsFirstSentinel(call.data, e._size, t, k)
              => call.out = Ok(ListV([i \in 1 .. k |-> ChunkValue(e, call.data, i)]),
                               k * e._size + Len(t))

\* a U16 Array with sentinel 0 has returned one element and 4 bytes read from a
\* buffer that goes on after the sentinel
C4_Witness ==
    /\ ArrayCallDone
    /\ heap[call.id]._length = NoneV
    /\ heap[call.id]._terminator = <<"bytes", <<0, 0>>>>
    /\ heap[heap[call.id].element]._size = 2
    /\ Len(call.data) = 5 /\ call.data[5] # 0
    /\ call.out.err = "ok" /\ call.out.size = 4
    /\ Len(call.out.value[2]) = 1

\* C10: an Array with a byte budget b (and neither count nor sentinel) never
\* returns a result whose bytes read differ from b: an element that would take
\* the total past b makes the call fail.
C10_BudgetNeverOvershot ==
    (ArrayCallDone /\ heap[call.id]._length = NoneV /\ heap[call.id]._terminator = NoneV
        /\ heap[call.id]._length_bytes # NoneV /\ call.out.err = "ok")
    => call.out.size = heap[call.id]._length_bytes[2]

\* the call in hand is Array.extract, done, on an Array with a sentinel and no
\* count, whatever its elements are
SentinelCallDone ==
    /\ call.op = "read_field"
    /\ heap[call.id].kind = "Array"
    /\ heap[call.id]._length = NoneV
    /\ heap[call.id]._terminator # NoneV

\* the bytes t occur somewhere in data
Occurs(data, t) ==
    \E i \in 0 .. Len(data) - Len(t) : SubSeq(data, i + 1, i + Len(t)) = t

\* C11: decoding an Array with a sentinel ends on every input, and in one of two
\* ways only: it returns, and then the bytes read end with the sentinel it
\* matched, or it raises NotEnoughBytes; on an input in which the sentinel does
\* not occur it raises NotEnoughBytes and returns nothing.
C11_SentinelTerminates ==
    SentinelCallDone
    => LET t == heap[call.id]._terminator[2]
       IN  /\ call.out.err \in {"ok", "NotEnoughBytes"}
           /\ call.out.err = "ok"
              => /\ call.out.size >= Len(t)
                 /\ SubSeq(call.data, call.out.size - Len(t) + 1, call.out.size) = t
           /\ ~Occurs(call.data, t) => call.out.err = "NotEnoughBytes"

---------------------------------------------------------------------------
(* Construction and use interleaved: descriptors are constructed one after *)
(* the other, later ones from earlier ones or from classes, and any of     *)
(* them decodes a buffer at any time.                                      *)

\* the Integer classes constructed, and handed over as classes
BuildClasses == {"U16"}

BuildOrders == {"None", "little", "big"}

\* the (length, length_bytes, terminator) arguments of the Arrays constructed
BuildArrayArgs ==
    {<<IntV(1), NoneV, NoneV>>,
     <<NoneV, NoneV, NoneV>>,
     <<IntV(1), NoneV, <<"bytes", <<0, 0>>>>>>,
     <<NoneV, NoneV, <<"bytes", <<0, 0>>>>>>}

\* the buffers decoded
BuildData == {<<1, 0>>, <<0, 1>>, <<1, 0, 0, 0>>}

\* what is handed over as an element or as a field: a descriptor constructed
\* before, or a class
FieldArgs == {<<"inst", i>> : i \in 1 .. Len(heap)} \cup {<<"cls", c>> : c \in BuildClasses}

\* c(byteorder=bo)
NewInteger(c, bo) ==
    /\ Len(heap) < MaxObjs
    /\ heap' = Append(heap, IntegerInit(c, bo))
    /\ UNCHANGED <<native, call, stream, rd>>

\* Array(element, length, length_bytes, terminator, byteorder=bo)
NewArray(element, length, length_bytes, terminator, bo) ==
    /\ Len(ArrayInit(heap, element, length, length_bytes, terminator, bo)) <= MaxObjs
    /\ heap' = ArrayInit(heap, element, length, length_bytes, terminator, bo)
    /\ UNCHANGED <<native, call, stream, rd>>

\* Format({name: field}, byteorder=bo)
NewFormat(fields, bo) ==
    /\ Len(FormatInit(heap, fields, bo)) <= MaxObjs
    /\ heap' = FormatInit(heap, fields, bo)
    /\ UNCHANGED <<native, call, stream, rd>>

\* descriptor.read_field(data, {}) on a descriptor constructed before
ReadFieldOf(id, data) ==
    /\ call' = [Pending(id, data) EXCEPT !.op = "read_field",
                                         !.out = read_field(heap, id, data, <<>>)]
    /\ UNCHANGED <<native, heap, stream, rd>>

\* format.read(data, allow_leftover, return_bytes=True) on a Format constructed
\* before
ReadOf(id, data, allow_leftover) ==
    /\ heap[id].kind = "Format"
    /\ call' = [Pending(id, data) EXCEPT !.op = "read",
                                         !.allow_leftover = allow_leftover,
                                         !.return_bytes = TRUE,
                                         !.out = FormatRead(heap, id, data,
                                                            allow_leftover, TRUE)]
    /\ UNCHANGED <<native, heap, stream, rd>>

InitBuild ==
    /\ native \in ByteOrders
    /\ heap = <<>>
    /\ call = NoCall
    /\ stream = NoStream
    /\ rd = NoRead

NextBuild ==
    \/ \E c \in BuildClasses, bo \in BuildOrders : NewInteger(c, bo)
    \/ \E element \in FieldArgs, a \in BuildArrayArgs, bo \in BuildOrders :
          NewArray(element, a[1], a[2], a[3], bo)
    \/ \E f \in FieldArgs, bo \in BuildOrders : NewFormat(<<<<FieldNames[1], f>>>>, bo)
    \/ \E id \in 1 .. Len(heap), data \in BuildData : ReadFieldOf(id, data)
    \/ \E id \in 1 .. Len(heap), data \in BuildData, allow_leftover \in BOOLEAN :
          ReadOf(id, data, allow_leftover)

SpecBuild == InitBuild /\ [][NextBuild]_vars

\* the byte order a field without one of its own inherits from ob
Inherited(d, ob) ==
    IF d._byteorder = "None" THEN ob
    ELSE IF d._byteorder \in ByteOrders THEN d._byteorder ELSE native

\* the dict of Integer fields decoded from data, each in its own explicit byte
\* order and otherwise in ob
RECURSIVE ExpectIntegers(_, _, _, _)
ExpectIntegers(h, fields, data, ob) ==
    IF fields = <<>> THEN <<>>
    ELSE LET d == h[fields[1][2]]
         IN  <<<<fields[1][1],
                 IntV(from_bytes(Take(data, d._size), Inherited(d, ob), d.signed))>>>>
             \o ExpectIntegers(h, Tail(fields), Drop(data, d._size), ob)

\* o is a Format with an explicit byte order whose one field is a Format with no
\* byte order of its own, all of whose fields are Integers
IsNestedFormat(h, o) ==
    /\ h[o].kind = "Format"
    /\ h[o]._byteorder \in ByteOrders
    /\ Len(h[o]._fields) = 1
    /\ h[h[o]._fields[1][2]].kind = "Format"
    /\ h[h[o]._fields[1][2]]._byteorder = "None"
    /\ \A i \in 1 .. Len(h[h[o]._fields[1][2]]._fields) :
          h[h[h[o]._fields[1][2]]._fields[i][2]].kind = "Integer"

\* C6: when a Format with no byte order of its own is a field of a Format with an
\* explicit byte order, each of its Integer fields decodes in its own explicit
\* byte order if it has one and in the outer Format's byte order otherwise.
C6_NestedFormatByteOrder ==
    (call.op = "read" /\ IsNestedFormat(heap, call.id) /\ call.out.err = "ok")
    => LET inner == heap[heap[call.id]._fields[1][2]]
       IN  call.out.ret[1] =
             DictV(<<<<heap[call.id]._fields[1][1],
                      DictV(ExpectIntegers(heap, inner._fields, call.data,
                                           heap[call.id]._byteorder))>>>>)

\* the extents an Array was constructed with
Strategies(d) ==
    {s \in {"length", "length_bytes", "terminator"} :
        \/ s = "length" /\ d._length # NoneV
        \/ s = "length_bytes" /\ d._length_bytes # NoneV
        \/ s = "terminator" /\ d._terminator # NoneV}

\* C8: constructing an Array with none or with more than one of length,
\* length_bytes and terminator fails, so every Array that was constructed has
\* exactly one of them.
C8_ExactlyOneStrategy ==
    \A i \in 1 .. Len(heap) :
        heap[i].kind = "Array" => Cardinality(Strategies(heap[i])) = 1

\* C9: no construction and no call changes how a descriptor constructed before
\* decodes: every descriptor decodes every buffer after the step as before it.
C9_DescriptorsImmutable ==
    [][\A id \in 1 .. Len(heap), data \in BuildData :
          read_field(heap', id, data, <<>>) = read_field(heap, id, data, <<>>)]_vars

\* a is an Array with a count of 1 whose element is an Integer that was handed to
\* no other constructor
IsIntegerArray(h, a) ==
    /\ h[a].kind = "Array"
    /\ h[a]._length = IntV(1)
    /\ h[h[a].element].kind = "Integer"
    /\ \A o \in 1 .. Len(h) :
          /\ (o # a /\ h[o].kind = "Array") => h[o].element # h[a].element
          /\ \A i \in 1 .. Len(h[o]._fields) : h[o]._fields[i][2] # h[a].element

\* the one-element list an Array of an Integer element decodes from data when its
\* element takes its own explicit byte order and otherwise ob
ExpectElements(h, a, data, ob) ==
    LET e == h[h[a].element]
    IN  ListV(<<IntV(from_bytes(Take(data, e._size), Inherited(e, ob), e.signed))>>)

\* C12: the elements of an Array decode in their own explicit byte order if they
\* have one and otherwise in the byte order the Array resolves to: the Array's
\* explicit byte order, or, for an Array without one that is a field of a Format,
\* the byte order of that Format.
C12_ElementByteOrder ==
    /\ (call.op = "read_field" /\ IsIntegerArray(heap, call.id) /\ call.out.err = "ok")
       => call.out.value = ExpectElements(heap, call.id, call.data,
                                          byteorder(heap[call.id]))
    /\ (call.op = "read" /\ heap[call.id]._byteorder \in ByteOrders
           /\ Len(heap[call.id]._fields) = 1
           /\ IsIntegerArray(heap, heap[call.id]._fields[1][2])
           /\ call.out.err = "ok")
       => LET a == heap[call.id]._fields[1][2]
          IN  call.out.ret[1] =
                DictV(<<<<heap[call.id]._fields[1][1],
                         ExpectElements(heap, a, call.data,
                                        Inherited(heap[a], heap[call.id]._byteorder))>>>>)

---------------------------------------------------------------------------
(* reader.py: a ByteReader over the BytesIO of a bytes value.  stream is   *)
(* the BytesIO (its buffer and its position), rd the last call and what it *)
(* returned or raised.                                                     *)

\* normalize_byteorder
normalize_byteorder(bo) == IF bo = "native" THEN native ELSE bo

\* BytesIO.read(size), size >= 0: the bytes returned; the position moves past them
BytesIORead(size) ==
    SubSeq(stream.buf, stream.pos + 1,
           IF stream.pos + size <= Len(stream.buf) THEN stream.pos + size
           ELSE Len(stream.buf))

\* ByteReader.read_bytes: what it returns or raises, self.data.read(size) done
read_bytes(size) ==
    LET data == BytesIORead(size)
    IN  IF data = <<>> \/ Len(data) # size
        THEN [op |-> "read_bytes", size |-> size, err |-> "NotEnoughBytes", ret |-> <<>>]
        ELSE [op |-> "read_bytes", size |-> size, err |-> "ok", ret |-> data]

\* ByteReader.tell
tell == stream.pos

\* reader.read_bytes(size)
ReadBytes(size) ==
    /\ rd' = read_bytes(size)
    /\ stream' = [stream EXCEPT !.pos = stream.pos + Len(BytesIORead(size))]
    /\ UNCHANGED <<native, heap, call>>

\* reader.read_integer(size, byteorder, signed)
ReadInteger(size, bo, signed) ==
    /\ rd' = IF read_bytes(size).err # "ok"
             THEN [read_bytes(size) EXCEPT !.op = "read_integer"]
             ELSE [op |-> "read_integer", size |-> size, err |-> "ok",
                   ret |-> <<from_bytes(read_bytes(size).ret, normalize_byteorder(bo),
                                        signed)>>]
    /\ stream' = [stream EXCEPT !.pos = stream.pos + Len(BytesIORead(size))]
    /\ UNCHANGED <<native, heap, call>>

\* reader.is_eof(): seeks to the end and back
IsEof ==
    /\ rd' = [op |-> "is_eof", size |-> 0, err |-> "ok",
              ret |-> <<tell >= Len(stream.buf)>>]
    /\ UNCHANGED <<native, heap, call, stream>>

InitReader ==
    /\ native \in ByteOrders
    /\ heap = <<>>
    /\ call = NoCall
    /\ \E buf \in SeqsUpTo(InputBytes, MaxStream) : stream = [buf |-> buf, pos |-> 0]
    /\ rd = NoRead

NextReader ==
    \/ \E size \in 0 .. MaxRead : ReadBytes(size)
    \/ \E size \in 0 .. MaxRead, bo \in {"little", "big", "native"}, signed \in BOOLEAN :
          ReadInteger(size, bo, signed)
    \/ IsEof

SpecReader == InitReader /\ [][NextReader]_vars

\* C7: a read of n >= 1 bytes (read_bytes, read_integer) succeeds when at least n
\* bytes remain, returns exactly the next n bytes and moves the position by n;
\* when fewer remain it raises NotEnoughBytes and the position is the one before
\* the read.  So the position never decreases and changes only on success.
C7_ReadExactOrUnmoved ==
    [][(rd'.op \in {"read_bytes", "read_integer"} /\ rd'.size >= 1)
       => /\ stream'.pos >= stream.pos
          /\ IF Len(stream.buf) - stream.pos >= rd'.size
             THEN /\ rd'.err = "ok"
                  /\ stream'.pos = stream.pos + rd'.size
                  /\ rd'.op = "read_bytes"
                     => rd'.ret = SubSeq(stream.buf, stream.pos + 1,
                                         stream.pos + rd'.size)
             ELSE /\ rd'.err = "NotEnoughBytes"
                  /\ stream'.pos = stream.pos]_vars

====
